---- MODULE Spec2Model ----
(***************************************************************************)
(* Model of the firmware update session of src/src/updater.rs:             *)
(* FirmwareUpdater::check / FirmwareUpdater::run driving a FirmwareDevice, *)
(* an UpdateService and a DelayUs.  The device, the service and the delay  *)
(* are external; their answers are inputs chosen with \E.  Every .await   *)
(* of the session is a step of its own: the call it completes is appended  *)
(* to `log`, and the code up to the next .await runs with it.              *)
(***************************************************************************)
EXTENDS Integers, Sequences, FiniteSets, TLC

VARIABLES
    pc,      \* where run is: "idle" (before device.status() completes), "loop"
             \* (before service.request() completes, lines 72-90), "start",
             \* "write", "synced", "delay_ms", "update" (suspended in that call's
             \* .await), "done" (returned), "panicked"
    state,   \* UpdaterState (lines 25-29, built at lines 54-66)
    cmd,     \* the command being handled (`cmd` of line 87), NoCmd between commands
    overflow_checks,  \* whether the build panics on arithmetic overflow
    result,  \* what run returned (lines 166-176): None, or Some(Ok(..)) / Some(Err(..))
    log      \* every completed call on the device, the service and the delay, in order

vars == <<pc, state, cmd, overflow_checks, result, log>>

(* ------------------------------ bounds -------------------------------- *)

\* Largest number of service requests of one session the model explores.
MaxRequests == 3

(* ------------------------- Option and Result -------------------------- *)

None == <<>>
Some(x) == <<x>>
IsSome(o) == o # <<>>
Unwrap(o) == o[1]

Ok(x) == <<"Ok", x>>
Err(e) == <<"Err", e>>
IsOk(r) == r[1] = "Ok"
IsErr(r) == r[1] = "Err"
Unit == <<>>

(* ------------------------- 32-bit unsigned ---------------------------- *)
(* A u32 is the pair <<hi, lo>> of its 16-bit halves, so that the full     *)
(* width 2^32 is kept while every intermediate value stays a small         *)
(* integer.                                                                *)

Half == 65536

U32(hi, lo) == <<hi, lo>>
U32Zero == U32(0, 0)
U32Max == U32(Half - 1, Half - 1)
U32Of(n) == U32((n \div Half) % Half, n % Half)

U32Le(a, b) == a[1] < b[1] \/ (a[1] = b[1] /\ a[2] <= b[2])
U32Lt(a, b) == a[1] < b[1] \/ (a[1] = b[1] /\ a[2] < b[2])

\* a + b: the wrapped sum and whether the exact sum left the 32 bits.
U32Add(a, b) ==
    LET lo == a[2] + b[2]
        hi == a[1] + b[1] + (lo \div Half)
    IN  [value |-> U32(hi % Half, lo % Half), overflow |-> hi >= Half]

\* a * k for a small k (k < 2^15): wrapped product and overflow flag.
U32Mul(a, k) ==
    LET lo == a[2] * k
        hi == a[1] * k + (lo \div Half)
    IN  [value |-> U32(hi % Half, lo % Half), overflow |-> hi >= Half]

(* ----------------------------- versions ------------------------------- *)

\* Capacity of heapless::Vec<u8, 32>.
VersionCap == 32

\* Mutant: a slice that does not fit is cut to the capacity.
VecFromSlice_Truncates(slice) ==
    IF Len(slice) <= VersionCap THEN Ok(slice) ELSE Ok(SubSeq(slice, 1, VersionCap))

\* Vec::from_slice: a copy of the slice, or an error when it does not fit.
VecFromSlice(slice) ==
    IF Len(slice) <= VersionCap THEN Ok(slice) ELSE Err("capacity")

\* F::MTU of the device under test.
MTU == 256

\* Multiplier of `poll * 1000`.
MsPerSec == 1000

(* ------------------------------ inputs -------------------------------- *)

V1 == <<49>>
V2 == <<50>>
VLong == [i \in 1..(VersionCap + 1) |-> 48]
Versions == {V1, V2, VLong}

DeviceErrors == {"flash", "busy"}
ServiceErrors == {"transport"}
DeviceResults == {Ok(Unit)} \cup {Err(e) : e \in DeviceErrors}
DelayResults == {Ok(Unit), Err("timer")}

\* What device.status() may answer.
StatusSnapshots ==
    [current_version : {V1, VLong},
     next_offset : {U32Zero, U32Of(1), U32Max},
     next_version : {None, Some(V2), Some(VLong)}]
StatusResults == {Ok(s) : s \in StatusSnapshots} \cup {Err(e) : e \in DeviceErrors}

Payloads == {<<>>, <<170>>}
WriteOffsets == {U32Zero, U32Of(1)}
\* 4294968 = 65 * 65536 + 35128 is the least poll whose milliseconds leave 32 bits.
Polls == {None, Some(U32Of(1)), Some(U32(65, 35128))}
SwapVersions == {V1, V2}
\* Arithmetic overflow panics when the build has overflow checks (debug) and
\* wraps when it has none (release): a session runs in one of the two builds.
OverflowChecks == BOOLEAN
Checksums == {<<171>>}

\* drogue_ajour_protocol::Command, correlation_id left out (never read).
WriteCmd(version, offset, data) ==
    [type |-> "Write", version |-> version, offset |-> offset, data |-> data]
SyncCmd == [type |-> "Sync", version |-> V1, poll |-> None]
WaitCmd(poll) == [type |-> "Wait", poll |-> poll]
SwapCmd(version, checksum) ==
    [type |-> "Swap", version |-> version, checksum |-> checksum]

(* --------------------------- error variants --------------------------- *)

ErrEncode == <<"Encode">>
ErrDecode == <<"Decode">>
ErrDelay == <<"Delay">>
ErrDevice(e) == <<"Device", e>>
ErrService(e) == <<"Service", e>>

(* ------------------------- calls and control -------------------------- *)

\* One completed call on the device, the service or the delay, with what it
\* returned.
Call(op, args, res) == [op |-> op, args |-> args, res |-> res]

\* What the code does after a call completes: go round the loop, return,
\* panic, or suspend in the .await of the next call.
Continue == <<"continue">>
Return(r) == <<"return", r>>
Panic == <<"panic">>
Await(op) == <<"await", op>>

Outcome(st, flow) == [state |-> st, flow |-> flow]

NoState == [current_version |-> <<>>, next_offset |-> U32Zero, next_version |-> None]
NoCmd == [type |-> "None"]

(* ----------------------- FirmwareUpdater::check ----------------------- *)

\* UpdaterState from the device's initial status (lines 56-65).
InitialState(initial) ==
    LET cur == VecFromSlice(initial.current_version)
    IN  IF IsErr(cur) THEN Err(ErrEncode)
        ELSE IF IsSome(initial.next_version)
             THEN LET nxt == VecFromSlice(Unwrap(initial.next_version))
                  IN  IF IsErr(nxt) THEN Err(ErrEncode)
                      ELSE Ok([current_version |-> cur[2],
                               next_offset |-> initial.next_offset,
                               next_version |-> Some(nxt[2])])
             ELSE Ok([current_version |-> cur[2],
                      next_offset |-> initial.next_offset,
                      next_version |-> None])

\* Mutant: once a download is in progress its version is reported as current.
BuildStatus_ReportsPending(st) ==
    IF IsSome(st.next_version)
    THEN [version |-> Unwrap(st.next_version), mtu |-> Some(U32Of(MTU)),
          correlation_id |-> None,
          update |-> Some([version |-> Unwrap(st.next_version),
                           offset |-> st.next_offset])]
    ELSE [version |-> st.current_version, mtu |-> Some(U32Of(MTU)),
          correlation_id |-> None, update |-> None]

\* Mutant: the first-contact form is sent whatever the session state.
BuildStatus_AlwaysFirst(st) ==
    [version |-> st.current_version, mtu |-> Some(U32Of(MTU)),
     correlation_id |-> None, update |-> None]

\* Status::update / Status::first (lines 73-83).
BuildStatus(st) ==
    IF IsSome(st.next_version)
    THEN [version |-> st.current_version, mtu |-> Some(U32Of(MTU)),
          correlation_id |-> None,
          update |-> Some([version |-> Unwrap(st.next_version),
                           offset |-> st.next_offset])]
    ELSE [version |-> st.current_version, mtu |-> Some(U32Of(MTU)),
          correlation_id |-> None, update |-> None]

\* Mutant: no chunk is taken for the start of an image.
StartNeeded_Never(offset) == FALSE

\* Mutant: every chunk is taken for the start of an image.
StartNeeded_Always(offset) == TRUE

\* `if offset == 0` (line 98).
StartNeeded(offset) == offset = U32Zero

\* Mutant: the version of the first chunk is kept for the whole download.
StoreVersion_KeepsFirst(next_version, vec) ==
    IF IsSome(next_version) THEN next_version ELSE Some(vec)

\* `state.next_version.replace(..)` (lines 114-116).
StoreVersion(next_version, vec) == Some(vec)

\* `state.next_offset += data.len() as u32` (line 113).
AdvanceOffset(next_offset, data) == U32Add(next_offset, U32Of(Len(data)))

\* Command::Write up to its first .await (lines 92-106): device.start when
\* the offset is 0, device.write otherwise.
OnWrite(st, offset) ==
    Outcome(st, IF StartNeeded(offset) THEN Await("start") ELSE Await("write"))

\* device.start(..) has completed (lines 104-111): its failure returns, its
\* success goes on to device.write.
OnStarted(st, startRes) ==
    IF IsErr(startRes)
    THEN Outcome(st, Return(Err(ErrDevice(startRes[2]))))
    ELSE Outcome(st, Await("write"))

\* device.write(..) has completed (lines 109-117).
OnWritten(st, version, data, writeRes, checks) ==
    LET sum == AdvanceOffset(st.next_offset, data)
        vec == VecFromSlice(version)
    IN  IF IsErr(writeRes)
        THEN Outcome(st, Return(Err(ErrDevice(writeRes[2]))))
        ELSE IF sum.overflow /\ checks
        THEN Outcome(st, Panic)
        ELSE IF IsErr(vec)
        THEN Outcome([st EXCEPT !.next_offset = sum.value], Return(Err(ErrDecode)))
        ELSE Outcome([st EXCEPT !.next_offset = sum.value,
                                !.next_version = StoreVersion(st.next_version, vec[2])],
                     Continue)

\* Mutant: the sync arm activates the image as the swap arm does.
OnSync_Activates(st) == Outcome(st, Await("update"))

\* Command::Sync up to its .await (lines 118-124).
OnSync(st) == Outcome(st, Await("synced"))

\* Mutant: after confirming the device the loop polls again.
OnSynced_KeepsPolling(st, syncedRes) ==
    IF IsErr(syncedRes)
    THEN Outcome(st, Return(Err(ErrDevice(syncedRes[2]))))
    ELSE Outcome(st, Continue)

\* device.synced() has completed (lines 124-125).
OnSynced(st, syncedRes) ==
    IF IsErr(syncedRes)
    THEN Outcome(st, Return(Err(ErrDevice(syncedRes[2]))))
    ELSE Outcome(st, Return(Ok(TRUE)))

\* The argument of delay_ms: `poll * 1000` (line 134).
DelayArg(poll) == U32Mul(poll, MsPerSec)

\* Command::Wait up to its .await (lines 127-134): with an interval, the
\* milliseconds are computed and delay_ms is called; with none, the loop
\* goes on.
OnWait(st, poll, checks) ==
    IF IsSome(poll)
    THEN IF DelayArg(Unwrap(poll)).overflow /\ checks
         THEN Outcome(st, Panic)
         ELSE Outcome(st, Await("delay_ms"))
    ELSE Outcome(st, Continue)

\* Mutant: a failed delay is ignored and the loop goes on.
OnDelayed_IgnoresFailure(st, delayRes) == Outcome(st, Continue)

\* delay_ms(..) has completed (lines 135-137).
OnDelayed(st, delayRes) ==
    IF IsErr(delayRes)
    THEN Outcome(st, Return(Err(ErrDelay)))
    ELSE Outcome(st, Continue)

\* Mutant: the swap arm reports the update without activating the image.
OnSwap_SkipsUpdate(st) == Outcome(st, Return(Ok(FALSE)))

\* Command::Swap up to its .await (lines 139-147).
OnSwap(st) == Outcome(st, Await("update"))

\* Mutant: the result of device.update is dropped instead of propagated.
OnUpdated_IgnoresFailure(st, updateRes) == Outcome(st, Return(Ok(FALSE)))

\* device.update(..) has completed (lines 147-149).
OnUpdated(st, updateRes) ==
    IF IsErr(updateRes)
    THEN Outcome(st, Return(Err(ErrDevice(updateRes[2]))))
    ELSE Outcome(st, Return(Ok(FALSE)))

\* Mutant: a failed request restarts the download bookkeeping.
OnServiceError_ResetsOffset(st, e) ==
    Outcome([st EXCEPT !.next_offset = U32Zero], Continue)

\* Mutant: a failed request is surfaced to the caller.
OnServiceError_Surfaces(st, e) == Outcome(st, Return(Err(ErrService(e))))

\* Err(e) of service.request (lines 151-156): logged, nothing else.
OnServiceError(st, e) == Outcome(st, Continue)

(* ------------------------ FirmwareUpdater::run ------------------------ *)

\* Mutant: the two outcomes are exchanged.
RunResult_Exchanged(checked) ==
    IF IsErr(checked) THEN checked
    ELSE IF checked[2] THEN Ok("Updated") ELSE Ok("Synced")

\* Lines 171-175.
RunResult(checked) ==
    IF IsErr(checked) THEN checked
    ELSE IF checked[2] THEN Ok("Synced") ELSE Ok("Updated")

(* ---------------------------- the session ----------------------------- *)

NumCalls(l, op) == Cardinality({i \in DOMAIN l : l[i].op = op})

\* run is called, in one of the two builds, and is suspended in
\* device.status().
Init ==
    /\ pc = "idle"
    /\ state = NoState
    /\ cmd = NoCmd
    /\ overflow_checks \in OverflowChecks
    /\ result = None
    /\ log = <<>>

\* A call completes and the code runs up to its next .await, its return or
\* its panic; c is the command in hand when it suspends again.
Resume(call, c, out) ==
    /\ log' = Append(log, call)
    /\ state' = out.state
    /\ pc' = IF out.flow = Continue THEN "loop"
             ELSE IF out.flow = Panic THEN "panicked"
             ELSE IF out.flow[1] = "await" THEN out.flow[2]
             ELSE "done"
    /\ cmd' = IF out.flow[1] = "await" THEN c ELSE NoCmd
    /\ result' = IF out.flow[1] = "return" THEN Some(RunResult(out.flow[2])) ELSE None
    /\ UNCHANGED overflow_checks

\* device.status() completes with statusRes: the initial UpdaterState
\* (lines 54-66).
StatusDone(statusRes) ==
    /\ pc = "idle"
    /\ LET statusCall == Call("status", <<>>, statusRes)
       IN  IF IsErr(statusRes)
           THEN Resume(statusCall, NoCmd, Outcome(state, Return(Err(ErrDevice(statusRes[2])))))
           ELSE LET st == InitialState(statusRes[2])
                IN  IF IsErr(st)
                    THEN Resume(statusCall, NoCmd, Outcome(state, Return(st)))
                    ELSE Resume(statusCall, NoCmd, Outcome(st[2], Continue))

CheckStatus == \E statusRes \in StatusResults : StatusDone(statusRes)

\* service.request(&status) completes with response (lines 73-91), and the
\* arm of the match runs up to its first .await.
Requested(response, c, out) ==
    Resume(Call("request", <<BuildStatus(state)>>, response), c, out)

CanRequest == pc = "loop" /\ NumCalls(log, "request") < MaxRequests

WriteRequested(version, offset, data) ==
    /\ CanRequest
    /\ LET c == WriteCmd(version, offset, data)
       IN  Requested(Ok(c), c, OnWrite(state, offset))

RequestWrite ==
    \E version \in Versions, offset \in WriteOffsets, data \in Payloads :
        WriteRequested(version, offset, data)

RequestSync ==
    /\ CanRequest
    /\ Requested(Ok(SyncCmd), SyncCmd, OnSync(state))

RequestWait ==
    /\ CanRequest
    /\ \E poll \in Polls :
         Requested(Ok(WaitCmd(poll)), WaitCmd(poll), OnWait(state, poll, overflow_checks))

RequestSwap ==
    /\ CanRequest
    /\ \E version \in SwapVersions, checksum \in Checksums :
         LET c == SwapCmd(version, checksum)
         IN  Requested(Ok(c), c, OnSwap(state))

RequestFails ==
    /\ CanRequest
    /\ \E e \in ServiceErrors :
         Requested(Err(e), NoCmd, OnServiceError(state, e))

\* device.start(version) completes (lines 104-107).
Started(startRes) ==
    /\ pc = "start"
    /\ Resume(Call("start", <<cmd.version>>, startRes), cmd, OnStarted(state, startRes))

Start == \E startRes \in DeviceResults : Started(startRes)

\* device.write(offset, data) completes (lines 109-116).
Written(writeRes) ==
    /\ pc = "write"
    /\ Resume(Call("write", <<cmd.offset, cmd.data>>, writeRes), cmd,
              OnWritten(state, cmd.version, cmd.data, writeRes, overflow_checks))

Write == \E writeRes \in DeviceResults : Written(writeRes)

\* device.synced() completes (lines 124-125).
SyncedDone(syncedRes) ==
    /\ pc = "synced"
    /\ Resume(Call("synced", <<>>, syncedRes), cmd, OnSynced(state, syncedRes))

Synced == \E syncedRes \in DeviceResults : SyncedDone(syncedRes)

\* delay.delay_ms(poll * 1000) completes (lines 133-136).
Delayed(delayRes) ==
    /\ pc = "delay_ms"
    /\ Resume(Call("delay_ms", <<DelayArg(Unwrap(cmd.poll)).value>>, delayRes), cmd,
              OnDelayed(state, delayRes))

DelayMs == \E delayRes \in DelayResults : Delayed(delayRes)

\* device.update(version, checksum) completes (lines 145-149).
Updated(updateRes) ==
    /\ pc = "update"
    /\ Resume(Call("update", <<cmd.version, cmd.checksum>>, updateRes), cmd,
              OnUpdated(state, updateRes))

Update == \E updateRes \in DeviceResults : Updated(updateRes)

Next ==
    \/ CheckStatus
    \/ RequestWrite
    \/ RequestSync
    \/ RequestWait
    \/ RequestSwap
    \/ RequestFails
    \/ Start
    \/ Write
    \/ Synced
    \/ DelayMs
    \/ Update

\* No fairness: a session may stay suspended in any .await for ever, which
\* is also what is left of it when its caller drops the future there.
Spec == Init /\ [][Next]_vars

(* ------------- the session when no operation ever fails --------------- *)
(* The same steps, with a device and a delay whose operations always       *)
(* succeed and complete; the service still answers as it likes.            *)

LiveSnapshots ==
    [current_version : {V1},
     next_offset : {U32Zero, U32Max},
     next_version : {None, Some(V2)}]

LiveCheckStatus == \E initial \in LiveSnapshots : StatusDone(Ok(initial))

LiveWrite ==
    \E version \in {V1, VLong}, offset \in WriteOffsets, data \in Payloads :
        WriteRequested(version, offset, data)

LiveStart == Started(Ok(Unit))
LiveWritten == Written(Ok(Unit))
LiveSynced == SyncedDone(Ok(Unit))
LiveDelayMs == Delayed(Ok(Unit))
LiveUpdate == Updated(Ok(Unit))

LiveNext ==
    \/ LiveCheckStatus
    \/ LiveWrite
    \/ RequestSync
    \/ RequestWait
    \/ RequestSwap
    \/ RequestFails
    \/ LiveStart
    \/ LiveWritten
    \/ LiveSynced
    \/ LiveDelayMs
    \/ LiveUpdate

\* The session is a single cooperative control flow: every awaited call
\* completes and the flow resumes, so a step that can be taken is taken.
LiveSpec == Init /\ [][LiveNext]_vars /\ WF_vars(LiveNext)

(* ====================== properties of the session ===================== *)

DeviceOps == {"status", "start", "write", "update", "synced"}

\* Positions of the service requests in the log, and the command of one.
Requests == {i \in DOMAIN log : log[i].op = "request"}
Answered(i, type) == IsOk(log[i].res) /\ log[i].res[2].type = type
CommandAt(i) == log[i].res[2]
ReportAt(i) == log[i].args[1]
Failed(i) == IsErr(log[i].res)
NoDeviceFailure == \A i \in DOMAIN log : log[i].op \in DeviceOps => ~Failed(i)

Returned(r) == IsSome(result) /\ result[1][1] = r[1] /\ result[1][2] = r[2]
ReturnedError(kind) ==
    IsSome(result) /\ result[1][1] = "Err" /\ result[1][2][1] = kind

\* The session is suspended in the .await of `op`, which is to be its next
\* call.
SuspendedIn(op) == pc = op /\ result = None

(* C1: a session in which the service answers (at least once, and) only    *)
(* with sync commands, and in which no device operation fails, never       *)
(* invokes start, write or update; it is suspended in synced, not yet      *)
(* invoked, or has invoked synced exactly once and returned Synced.        *)
C1_AllSyncIsSynced ==
    (/\ Requests # {}
     /\ \A i \in Requests : Answered(i, "Sync")
     /\ NoDeviceFailure)
    => /\ NumCalls(log, "start") = 0
       /\ NumCalls(log, "write") = 0
       /\ NumCalls(log, "update") = 0
       /\ \/ SuspendedIn("synced") /\ NumCalls(log, "synced") = 0
          \/ /\ pc = "done"
             /\ Returned(Ok("Synced"))
             /\ NumCalls(log, "synced") = 1

C1_Witness ==
    /\ Requests # {}
    /\ \A i \in Requests : Answered(i, "Sync")
    /\ NoDeviceFailure
    /\ Returned(Ok("Synced"))

\* The i-th service request of the session, as a position of the log.
Request(k) == CHOOSE i \in Requests : Cardinality({j \in Requests : j < i}) = k - 1
NumRequests == Cardinality(Requests)

\* The service answered with write commands that cover an image (the first
\* at offset 0, each following one at the end of the previous one) and then
\* with a swap command.
CoveringSession ==
    /\ NumRequests >= 2
    /\ \A k \in 1..(NumRequests - 1) : Answered(Request(k), "Write")
    /\ Answered(Request(NumRequests), "Swap")
    /\ CommandAt(Request(1)).offset = U32Zero
    /\ \A k \in 2..(NumRequests - 1) :
         LET prev == CommandAt(Request(k - 1))
             end == U32Add(prev.offset, U32Of(Len(prev.data)))
         IN  ~end.overflow /\ CommandAt(Request(k)).offset = end.value

NonEmptyChunks ==
    \A k \in 1..(NumRequests - 1) : CommandAt(Request(k)).data # <<>>

\* start was invoked once: right after the first request, with the version
\* of its chunk, and right before that chunk's write; and the session is
\* suspended in update or has returned Updated.
UpdatedAfterOneStart ==
    /\ NumCalls(log, "start") = 1
    /\ LET r == Request(1)
       IN  /\ log[r + 1].op = "start"
           /\ log[r + 1].args = <<CommandAt(r).version>>
           /\ log[r + 2].op = "write"
           /\ log[r + 2].args = <<CommandAt(r).offset, CommandAt(r).data>>
    /\ \/ SuspendedIn("update") /\ NumCalls(log, "update") = 0
       \/ pc = "done" /\ Returned(Ok("Updated"))

(* C2, as claimed: a session of write commands covering an image followed  *)
(* by a swap, in which no device operation fails, returns Updated (once    *)
(* update completes) and invokes start exactly once, on the first write,   *)
(* before its chunk is written.                                            *)
C2_Original == (CoveringSession /\ NoDeviceFailure) => UpdatedAfterOneStart

(* C2, amended: the same, for sessions whose chunks are all non-empty (an  *)
(* empty first chunk puts the next chunk at offset 0 too, and start is     *)
(* invoked again).                                                         *)
C2_CoveringWritesThenSwap ==
    (CoveringSession /\ NonEmptyChunks /\ NoDeviceFailure) => UpdatedAfterOneStart

C2_Witness ==
    /\ CoveringSession /\ NonEmptyChunks /\ NoDeviceFailure
    /\ NumRequests = 3
    /\ Returned(Ok("Updated"))

\* Sum of the payload lengths of the write commands answered to the first k
\* requests.
RECURSIVE PayloadSum(_)
PayloadSum(k) ==
    IF k = 0 THEN 0
    ELSE PayloadSum(k - 1)
         + (IF Answered(Request(k), "Write") THEN Len(CommandAt(Request(k)).data) ELSE 0)

(* C3: in a session of write commands covering an image followed by a      *)
(* swap, next_offset when the swap is handled equals the sum of the        *)
(* payload lengths of the session's write commands, whatever resume offset *)
(* the device's initial status reported.                                   *)
C3_FinalOffsetIsPayloadSum ==
    CoveringSession => state.next_offset = U32Of(PayloadSum(NumRequests))

\* The last call made is a service request that failed.
LastRequestFailed ==
    Len(log) > 0 /\ log[Len(log)].op = "request" /\ Failed(Len(log))

\* The first request failed, the second was answered sync, no device
\* operation failed.
FailThenSync ==
    /\ NumRequests >= 2
    /\ Failed(Request(1))
    /\ Answered(Request(2), "Sync")
    /\ NoDeviceFailure

(* C4: a step in which the service request fails leaves the session state  *)
(* unchanged and the loop running, with no result; the call that follows a *)
(* failed request is a request carrying the identical status report; and   *)
(* when the first request fails and the second is answered sync, the       *)
(* service is invoked exactly twice and run, once synced completes,        *)
(* returns Synced.                                                         *)
C4_FailedRequestIsRetried ==
    [][/\ (LastRequestFailed' /\ log' # log)
          => /\ state' = state
             /\ pc' = "loop"
             /\ result' = None
       /\ (LastRequestFailed /\ log' # log)
          => /\ log'[Len(log) + 1].op = "request"
             /\ log'[Len(log) + 1].args = log[Len(log)].args
       /\ FailThenSync'
          => /\ NumRequests' = 2
             /\ (SuspendedIn("synced") \/ Returned(Ok("Synced")))'
      ]_vars

C4_Witness == FailThenSync /\ Returned(Ok("Synced")) /\ NumRequests = 2

(* C5: run never returns the service error; an error it returns is one of  *)
(* encode, decode, delay or device; and however many requests have failed  *)
(* in a row, the session that has just seen a request fail is still        *)
(* running, with no result.                                                *)
C5_ServiceErrorNeverSurfaces ==
    /\ ~ReturnedError("Service")
    /\ (IsSome(result) /\ IsErr(result[1]))
       => result[1][2][1] \in {"Encode", "Decode", "Delay", "Device"}
    /\ LastRequestFailed => (pc = "loop" /\ result = None)

C5_Witness ==
    /\ NumRequests = MaxRequests
    /\ \A i \in Requests : Failed(i)
    /\ pc = "loop"

(* C6: a failed device operation is the last call of the session: run has  *)
(* returned the device error wrapping that failure, and no device          *)
(* operation, request or delay follows it (so a failed start is not        *)
(* followed by the write of its chunk).                                    *)
C6_DeviceFailureAborts ==
    \A i \in DOMAIN log :
        (log[i].op \in DeviceOps /\ Failed(i))
        => /\ i = Len(log)
           /\ pc = "done"
           /\ Returned(Err(ErrDevice(log[i].res[2])))

C6_Witness ==
    /\ Len(log) >= 3
    /\ log[Len(log)].op = "start"
    /\ Failed(Len(log))
    /\ Returned(Err(ErrDevice("busy")))

\* n * 1000 as a natural number, in three 16-bit digits, and a u32 widened
\* to the same form.
ExactMs(n) ==
    LET lo == n[2] * MsPerSec
        hi == n[1] * MsPerSec + (lo \div Half)
    IN  <<hi \div Half, hi % Half, lo % Half>>
Widen(u) == <<0, u[1], u[2]>>

(* C7: the request answered by a wait command with poll interval n is      *)
(* followed by exactly one delay, of n * 1000 milliseconds (the session is *)
(* suspended in it until it completes), and then by a request carrying the *)
(* identical status report; answered by a wait command with no interval it *)
(* is followed at once by such a request.                                  *)
C7_WaitDelaysPollSeconds ==
    \A i \in Requests :
        Answered(i, "Wait")
        => IF IsSome(CommandAt(i).poll)
           THEN IF i = Len(log)
                THEN SuspendedIn("delay_ms")
                ELSE /\ log[i + 1].op = "delay_ms"
                     /\ Widen(log[i + 1].args[1]) = ExactMs(Unwrap(CommandAt(i).poll))
                     /\ (i + 1 < Len(log))
                        => /\ log[i + 2].op = "request"
                           /\ log[i + 2].args = log[i].args
           ELSE (i < Len(log))
                => /\ log[i + 1].op = "request"
                   /\ log[i + 1].args = log[i].args

(* C8: next_offset never decreases once the session has its state.         *)
C8_OffsetNeverDecreases ==
    [][(pc # "idle") => U32Le(state.next_offset, state'.next_offset)]_vars

\* The initial status reported a version that does not fit the session's
\* version buffers.
TooLong(version) == Len(version) > VersionCap
StatusTooLong(initial) ==
    \/ TooLong(initial.current_version)
    \/ IsSome(initial.next_version) /\ TooLong(Unwrap(initial.next_version))

(* C9: when the device's initial status reports a current version or an    *)
(* in-progress version longer than 32 bytes, run has returned the encode   *)
(* error and the status query is the only call of the session: no request  *)
(* was sent, with a truncated version or otherwise, and no other device    *)
(* operation was invoked.                                                  *)
C9_LongVersionIsEncodeError ==
    (Len(log) >= 1 /\ log[1].op = "status" /\ ~Failed(1)
       /\ StatusTooLong(log[1].res[2]))
    => /\ pc = "done"
       /\ ReturnedError("Encode")
       /\ Len(log) = 1

C9_Witness ==
    /\ Len(log) = 1
    /\ ~Failed(1)
    /\ ~TooLong(log[1].res[2].current_version)
    /\ StatusTooLong(log[1].res[2])
    /\ ReturnedError("Encode")

\* The request at position i was answered by the command `type`, and the
\* device operation `op` that followed it succeeded and ended the log.
EndedBy(i, type, op) ==
    /\ Answered(i, type)
    /\ Len(log) = i + 1
    /\ log[i + 1].op = op
    /\ ~Failed(i + 1)

\* The request at position i, answered by a terminal command, is the last
\* request: the session is suspended in the command's device operation, or
\* that operation was the last call and run is over.
LastStepIs(i, op, args) ==
    \/ Len(log) = i /\ SuspendedIn(op)
    \/ /\ Len(log) = i + 1
       /\ pc = "done"
       /\ log[i + 1].op = op
       /\ log[i + 1].args = args

(* C10: run has a result exactly when it is over; the result is Synced     *)
(* exactly when the last command was sync and synced succeeded, Updated    *)
(* exactly when the last command was swap and update succeeded; update is  *)
(* called with the swap command's version and checksum; a sync or swap     *)
(* command is the last request of its session and the one device           *)
(* operation it triggers is the last call.                                 *)
C10_ResultFollowsTerminalCommand ==
    /\ IsSome(result) <=> (pc = "done")
    /\ (IsSome(result) /\ IsOk(result[1])) => result[1][2] \in {"Synced", "Updated"}
    /\ Returned(Ok("Synced")) <=> \E i \in Requests : EndedBy(i, "Sync", "synced")
    /\ Returned(Ok("Updated")) <=> \E i \in Requests : EndedBy(i, "Swap", "update")
    /\ \A i \in Requests :
         /\ Answered(i, "Swap")
            => LastStepIs(i, "update", <<CommandAt(i).version, CommandAt(i).checksum>>)
         /\ Answered(i, "Sync")
            => LastStepIs(i, "synced", <<>>)

C10_Witness ==
    /\ NumRequests = 3
    /\ Answered(Request(1), "Wait")
    /\ Answered(Request(2), "Write")
    /\ EndedBy(Request(3), "Swap", "update")
    /\ Returned(Ok("Updated"))

\* Positions of the device operations in the log; the last of them.
DeviceCalls == {i \in DOMAIN log : log[i].op \in DeviceOps}
LastDeviceCall == CHOOSE i \in DeviceCalls : \A j \in DeviceCalls : j <= i
SucceededBefore(op, i) ==
    \E j \in DOMAIN log : j < i /\ log[j].op = op /\ ~Failed(j)
InitialStatus == log[1].res[2]

\* update succeeded, as the last device operation and the last call.
UpdateIsLastCall ==
    /\ LastDeviceCall = Len(log)
    /\ log[Len(log)].op = "update"
    /\ ~Failed(Len(log))

(* C11, as claimed: when run has returned Updated, a write succeeded       *)
(* earlier in the session or the initial status reported an in-progress    *)
(* version, and update was the last device operation invoked.              *)
C11_Original ==
    Returned(Ok("Updated"))
    => /\ \/ SucceededBefore("write", Len(log))
          \/ IsSome(InitialStatus.next_version)
       /\ UpdateIsLastCall

(* C11, amended: when run has returned Updated, update succeeded and was   *)
(* the last device operation invoked (nothing is required of the writes:   *)
(* a swap command answered to the first request is obeyed).                *)
C11_UpdatedAfterUpdate == Returned(Ok("Updated")) => UpdateIsLastCall

C11_Witness ==
    /\ Returned(Ok("Updated"))
    /\ ~SucceededBefore("write", Len(log))
    /\ ~IsSome(InitialStatus.next_version)
    /\ UpdateIsLastCall

\* The report is of the in-progress form / carries the device's MTU.
InProgress(report) == IsSome(report.update)
CarriesMtu(report) == report.mtu = Some(U32Of(MTU))

\* This step completes a call of `op`.
Completes(op) == Len(log') > Len(log) /\ log'[Len(log) + 1].op = op

(* C12: the report of every request is of the in-progress form, carrying   *)
(* the session's next_offset and next_version, exactly when next_version   *)
(* is set when the request is made, and of the first-contact form          *)
(* otherwise; both carry the device's MTU and the current version.  In a   *)
(* session whose initial status has no in-progress version, a report is    *)
(* of the in-progress form exactly when a write succeeded before it.       *)
C12_ReportFormFollowsNextVersion ==
    [][Completes("request")
       => LET report == log'[Len(log) + 1].args[1]
          IN  /\ InProgress(report) <=> IsSome(state.next_version)
              /\ InProgress(report)
                 => Unwrap(report.update) = [version |-> Unwrap(state.next_version),
                                             offset |-> state.next_offset]
              /\ CarriesMtu(report)
              /\ report.version = state.current_version
              /\ ~IsSome(InitialStatus.next_version)
                 => (InProgress(report) <=> SucceededBefore("write", Len(log) + 1))
      ]_vars

C12_Witness ==
    /\ NumRequests = 3
    /\ ~IsSome(InitialStatus.next_version)
    /\ ~InProgress(ReportAt(Request(1)))
    /\ Answered(Request(1), "Wait")
    /\ ~InProgress(ReportAt(Request(2)))
    /\ Answered(Request(2), "Write")
    /\ InProgress(ReportAt(Request(3)))

\* The write command at position i is at offset 0, and start, which
\* followed it, failed.
StartFailed(i) ==
    CommandAt(i).offset = U32Zero /\ i < Len(log) /\ Failed(i + 1)

(* C13: the request answered by a write command is followed by start,      *)
(* with the chunk's version, exactly when the chunk's offset is 0, and     *)
(* then (unless start failed) by write with the chunk's own offset and     *)
(* payload, the session being suspended in each of them until it           *)
(* completes; this is so also when the request reported a download in      *)
(* progress.                                                               *)
C13_StartExactlyAtOffsetZero ==
    \A i \in Requests :
        Answered(i, "Write")
        => LET c == CommandAt(i)
               w == IF c.offset = U32Zero THEN i + 2 ELSE i + 1
           IN  /\ (c.offset = U32Zero)
                  <=> \/ i = Len(log) /\ SuspendedIn("start")
                      \/ i < Len(log) /\ log[i + 1].op = "start"
               /\ (c.offset = U32Zero /\ i < Len(log))
                  => log[i + 1].args = <<c.version>>
               /\ StartFailed(i) => Len(log) = i + 1
               /\ (~StartFailed(i) /\ ~(i = Len(log) /\ SuspendedIn("start")))
                  => IF Len(log) = w - 1
                     THEN SuspendedIn("write")
                     ELSE /\ log[w].op = "write"
                          /\ log[w].args = <<c.offset, c.data>>

\* A download is in progress (next_offset > 0) and the service restarts it.
C13_Witness ==
    \E i \in Requests :
        /\ InProgress(ReportAt(i))
        /\ U32Lt(U32Zero, Unwrap(ReportAt(i).update).offset)
        /\ Answered(i, "Write")
        /\ CommandAt(i).offset = U32Zero
        /\ Len(log) >= i + 2
        /\ log[i + 1].op = "start"
        /\ log[i + 2].op = "write"

\* a + n as a natural number, in three 16-bit digits.
ExactSum(a, n) ==
    LET lo == a[2] + (n % Half)
        hi == a[1] + (n \div Half) + (lo \div Half)
    IN  <<hi \div Half, hi % Half, lo % Half>>

\* This step completes a device write that succeeds.
WriteDone == Completes("write") /\ IsOk(log'[Len(log) + 1].res)

(* C14: the step in which a chunk's device write succeeds leaves           *)
(* next_offset at its old value plus the length of the payload (greater    *)
(* than before when the payload is not empty); every other step of the     *)
(* running session leaves next_offset unchanged.                           *)
C14_OffsetChangesOnlyByWrites ==
    [][(pc # "idle")
       => IF WriteDone
          THEN LET n == Len(log'[Len(log) + 1].args[2])
               IN  /\ pc' # "panicked"
                   /\ Widen(state'.next_offset) = ExactSum(state.next_offset, n)
                   /\ (n > 0) => U32Lt(state.next_offset, state'.next_offset)
          ELSE state'.next_offset = state.next_offset
      ]_vars

(* C15: the in-progress report that follows a write command of a payload   *)
(* of length n at offset o carries next_offset = o + n.                    *)
C15_ReportedOffsetIsEndOfChunk ==
    \A k \in 1..(NumRequests - 1) :
        Answered(Request(k), "Write")
        => LET c == CommandAt(Request(k))
               report == ReportAt(Request(k + 1))
           IN  /\ InProgress(report)
               /\ Widen(Unwrap(report.update).offset)
                  = ExactSum(c.offset, Len(c.data))

\* Position, in the log, of the device write of the write command at
\* position i.
WriteOf(i) == IF CommandAt(i).offset = U32Zero THEN i + 2 ELSE i + 1

(* C16: the call that follows the device write of a write command is the   *)
(* request of a report carrying that command's version as next_version,    *)
(* whatever version was recorded before, and the chunk was written to the  *)
(* device with its own offset and payload; when the loop goes on after a   *)
(* write command, next_version is its version.                             *)
C16_NextVersionIsLastWritten ==
    \A i \in Requests :
        Answered(i, "Write")
        => LET c == CommandAt(i)
               w == WriteOf(i)
           IN  /\ (Len(log) > w)
                  => /\ log[w].op = "write"
                     /\ log[w].args = <<c.offset, c.data>>
                     /\ ~Failed(w)
                     /\ log[w + 1].op = "request"
                     /\ InProgress(ReportAt(w + 1))
                     /\ Unwrap(ReportAt(w + 1).update).version = c.version
               /\ (Len(log) = w /\ pc = "loop")
                  => state.next_version = Some(c.version)

\* A chunk of another version than the recorded one, not at offset 0.
C16_Witness ==
    \E i \in Requests :
        /\ InProgress(ReportAt(i))
        /\ Answered(i, "Write")
        /\ CommandAt(i).offset # U32Zero
        /\ Unwrap(ReportAt(i).update).version # CommandAt(i).version
        /\ Len(log) > WriteOf(i)
        /\ Unwrap(ReportAt(WriteOf(i) + 1).update).version = CommandAt(i).version

(* C17: a failed delay is the last call of the session and run has         *)
(* returned the delay error: no report, device operation or other delay    *)
(* follows it.                                                             *)
C17_DelayFailureAborts ==
    \A i \in DOMAIN log :
        (log[i].op = "delay_ms" /\ Failed(i))
        => /\ i = Len(log)
           /\ pc = "done"
           /\ ReturnedError("Delay")

C17_Witness ==
    /\ NumRequests = 2
    /\ log[Len(log)].op = "delay_ms"
    /\ Failed(Len(log))
    /\ ReturnedError("Delay")

(* C18: the request answered by a write command whose version is longer    *)
(* than 32 bytes, and whose device operations succeed, is the last of the  *)
(* session: start (when the offset is 0) and write are invoked for the     *)
(* chunk, and once write has succeeded, as the last call, run has returned *)
(* the decode error.                                                       *)
C18_LongWriteVersionIsDecodeError ==
    \A i \in Requests :
        (Answered(i, "Write") /\ TooLong(CommandAt(i).version) /\ NoDeviceFailure)
        => LET c == CommandAt(i)
               w == IF c.offset = U32Zero THEN i + 2 ELSE i + 1
           IN  /\ Len(log) <= w
               /\ (c.offset = U32Zero /\ Len(log) > i)
                  => (log[i + 1].op = "start" /\ log[i + 1].args = <<c.version>>)
               /\ IF Len(log) < w
                  THEN SuspendedIn("start") \/ SuspendedIn("write")
                  ELSE /\ log[w].op = "write"
                       /\ log[w].args = <<c.offset, c.data>>
                       /\ pc = "done"
                       /\ ReturnedError("Decode")

\* No device operation and no delay has failed.
NoOperationFailure ==
    \A i \in DOMAIN log : log[i].op \in DeviceOps \cup {"delay_ms"} => ~Failed(i)
TerminalAnswer == \E i \in Requests : Answered(i, "Sync") \/ Answered(i, "Swap")
NonTerminal(i) == Failed(i) \/ Answered(i, "Wait") \/ Answered(i, "Write")
Running == pc \in {"loop", "start", "write", "delay_ms"}

(* C19: when no device or delay operation ever fails (and each completes)  *)
(* and the service eventually answers a request with sync or swap, run     *)
(* eventually returns Synced or Updated; and as long as the session is     *)
(* in its loop, or handling a write or a wait, every request so far was    *)
(* answered with a failure, a wait or a write.                             *)
C19_TerminalAnswerEndsRun ==
    /\ [](Running => \A i \in Requests : NonTerminal(i))
    /\ ([]NoOperationFailure /\ <>TerminalAnswer)
       => <>(Returned(Ok("Synced")) \/ Returned(Ok("Updated")))

C19_Witness ==
    /\ NumRequests = 3
    /\ Failed(Request(1))
    /\ Answered(Request(2), "Wait")
    /\ Answered(Request(3), "Sync")
    /\ NoOperationFailure
    /\ Returned(Ok("Synced"))

(* C20: once status has completed, it has been invoked exactly once, as    *)
(* the first call of the session, and every report carries the current     *)
(* version that this one query returned.                                   *)
C20_StatusQueriedOnce ==
    (pc # "idle")
    => /\ NumCalls(log, "status") = 1
       /\ log[1].op = "status"
       /\ \A i \in Requests :
            /\ ~Failed(1)
            /\ ReportAt(i).version = InitialStatus.current_version

C20_Witness ==
    /\ NumRequests = 3
    /\ Answered(Request(1), "Write")
    /\ Answered(Request(2), "Write")
    /\ NumCalls(log, "status") = 1
    /\ \A i \in Requests : ReportAt(i).version = InitialStatus.current_version

====
